---- MODULE Spec2Model ----
(***************************************************************************)
(* A model of scripts/p3x-assembly.py: the read registry (registerReads,   *)
(* the study* functions, trimGalore) and the stage orchestrator of main(). *)
(*                                                                         *)
(* Strings that the code compares or sorts (file basenames, read ids) are  *)
(* sequences of character codes, so that Python's string order and the     *)
(* character scans are computed, not assumed.  The dictionary `details`    *)
(* is a record with the same keys.  An uncaught Python exception ends the  *)
(* process: pc = "Crashed" and `crash` names the exception and the stage.  *)
(***************************************************************************)
EXTENDS Integers, Sequences, FiniteSets, TLC

VARIABLES
    inputs,      \* the read arguments the command line is drawn from
    args,        \* the parsed command line; items: the read arguments
                 \* main() has come to so far, in its order
    details,     \* the details dictionary of main()
    workfiles,   \* WORK_DIR: basename -> content of the file found there
    cwd,         \* "launch" before os.chdir(WORK_DIR), "work" after
    pc,          \* position of main()
    crash,       \* [err, at]: the uncaught exception, err = "" if none
    lastCall,    \* the last registerReads call: its arguments and result
    toRegister,  \* trimGalore's toRegister dictionary, as a set of entries
    recipe,      \* args.recipe as main() uses it after line 1901-1914
    contigs,     \* main()'s contigs: the working contig file, or NoContigs
    calls,       \* the external assembler, polisher and filter runs so far
    stages,      \* the stages main() has entered, in order
    loop,        \* the polishing loops: reads still to visit, the read set
                 \* being polished and the iteration number
    output,      \* what main() has saved: final contigs, run details, report
    filt,        \* a call of filterContigsByMinLength: its arguments and,
                 \* once called, what it wrote and returned
    strdiff,     \* a call of findSingleDifference: its arguments and result
    anon,        \* categorize_anonymous_read_files: args.anonymous_reads,
                 \* the candidate pairs, valid_pairs, valid_singles, the
                 \* inferred types and the items still to register
    depth,       \* a call of calcReadDepth: the depth data and the result
    study        \* a call of studySingleReads or studyPairedReads on FASTQ
                 \* records: the records and what the read-through found

\* what a run of main() leaves as it is
fixed == <<inputs, filt, strdiff, anon, depth, study>>
regvars_but_pc == <<fixed, args, details, workfiles, cwd, crash, lastCall, toRegister>>
regvars == <<regvars_but_pc, pc>>
runvars == <<recipe, contigs, calls, stages, loop, output>>
vars == <<regvars, runvars>>

----------------------------------------------------------------------------
(* Bounds and program constants *)

MaxItems == 2
MaxIterations == 2
MaxChanges == 1

MAX_SHORT_READ_LENGTH == 600

----------------------------------------------------------------------------
(* Strings as sequences of character codes *)

Ch1 == 49       \* '1'
Ch2 == 50       \* '2'

\* Python's str comparison s < t: lexicographic by character code
RECURSIVE StrLess(_, _)
StrLess(s, t) ==
    IF s = <<>> THEN t # <<>>
    ELSE IF t = <<>> THEN FALSE
    ELSE IF Head(s) # Head(t) THEN Head(s) < Head(t)
    ELSE StrLess(Tail(s), Tail(t))

\* sorted((file1, file2))
SortedPair(f1, f2) == IF StrLess(f2, f1) THEN <<f2, f1>> ELSE <<f1, f2>>

InSeq(x, s) == \E i \in 1..Len(s) : s[i] = x

\* list.index(x): position of the first occurrence, 0 if absent (ValueError)
IndexOf(x, s) ==
    IF InSeq(x, s) THEN CHOOSE i \in 1..Len(s) : s[i] = x /\ \A j \in 1..(i-1) : s[j] # x
    ELSE 0

Count(x, s) == Cardinality({i \in 1..Len(s) : s[i] = x})

----------------------------------------------------------------------------
(* The file system the run starts in *)

NameA == <<97>>           \* "a"
NameAB == <<97, 98>>      \* "ab"
NameL == <<108>>          \* "l"
NameX == <<120>>          \* "x"
NameM == <<109>>          \* "m"
NameE == <<101>>          \* "e"
NameO == <<111>>          \* "o"
NameF == <<102>>          \* "f"

Path(dir, base) == [dir |-> dir, base |-> base]
NoPath == Path("", <<>>)

Content(fmt, nrec, maxlen, id) ==
    [exists |-> TRUE, fmt |-> fmt, nrec |-> nrec, max_len |-> maxlen, id |-> id]
Missing == [exists |-> FALSE, fmt |-> "na", nrec |-> 0, max_len |-> 0, id |-> <<>>]

\* Read ids are "@r1", "@r2", "@r", "@r:r:1" and ">r".
\* Files of the launch directory ("cwd") and of one other directory ("other")
FileTable(p) ==
    CASE p = Path("cwd", NameA)    -> Content("fastq", 2, 150, <<64, 114, Ch1>>)
      [] p = Path("cwd", NameAB)   -> Content("fastq", 2, 150, <<64, 114, Ch2>>)
      [] p = Path("cwd", NameL)    -> Content("fastq", 2, 5000, <<64, 114>>)
      [] p = Path("cwd", NameX)    -> Content("fasta", 1, 5000, <<62, 114>>)
      [] p = Path("cwd", NameF)    -> Content("fasta", 2, 150, <<62, 114>>)
      [] p = Path("cwd", NameE)    -> Content("fastq", 0, 0, <<>>)
      [] p = Path("other", NameA)  -> Content("fastq", 2, 150, <<64, 114, Ch1>>)
      [] p = Path("other", NameO)  -> Content("fastq", 2, 150, <<64, 114, Ch1>>)
      \* files given as --anonymous_reads:
      \* "r1", "11", "1r1"
      [] p \in {Path("cwd", n) : n \in {<<114, Ch1>>, <<Ch1, Ch1>>, <<Ch1, 114, Ch1>>}}
                                   -> Content("fastq", 2, 150, <<64, 114, Ch1>>)
      \* "r2", "12", "2r2", "d2"
      [] p \in {Path("cwd", n) : n \in {<<114, Ch2>>, <<Ch1, Ch2>>, <<Ch2, 114, Ch2>>,
                                        <<100, Ch2>>}}
                                   -> Content("fastq", 2, 150, <<64, 114, Ch2>>)
      \* "s1", "s2", "r1r1", "r2r1", "r1r2"
      [] p \in {Path("cwd", n) : n \in {<<115, Ch1>>, <<115, Ch2>>, <<114, Ch1, 114, Ch1>>,
                                        <<114, Ch2, 114, Ch1>>, <<114, Ch1, 114, Ch2>>}}
                                   -> Content("fastq", 2, 150, <<64, 114>>)
      \* "d1"
      [] p = Path("cwd", <<100, Ch1>>)
                                   -> Content("fastq", 2, 150, <<64, 114, 58, 114, 58, Ch1>>)
      [] OTHER -> Missing

\* os.path.exists(path): a "work" path is relative to WORK_DIR
FileAt(p, wf) ==
    IF p.dir = "work"
    THEN IF p.base \in DOMAIN wf THEN wf[p.base] ELSE Missing
    ELSE FileTable(p)

\* open(name) with a bare name: relative to the current directory
CwdFile(cw, wf, base) ==
    IF cw = "work" THEN FileAt(Path("work", base), wf) ELSE FileTable(Path("cwd", base))

----------------------------------------------------------------------------
(* Raw specs and registered names *)

\* A raw spec "p1", "p1:p2" or "p1%p2"
Single(p) == [delim |-> "", p1 |-> p, p2 |-> NoPath]
Pair(p1, delim, p2) == [delim |-> delim, p1 |-> p1, p2 |-> p2]
NoSpec == Single(NoPath)

\* A registered name: basename, or delim.join(sorted((file1, file2)))
Id(delim, f1, f2) == [delim |-> delim, f1 |-> f1, f2 |-> f2]
SingleId(base) == Id("", base, <<>>)
None == Id("None", <<>>, <<>>)

Platforms == {"illumina", "iontorrent", "pacbio", "nanopore", "fasta"}

Problem(kind, spec) == [kind |-> kind, spec |-> spec]
AddProblem(d, kind, spec) == [d EXCEPT !.problem = Append(@, Problem(kind, spec))]

----------------------------------------------------------------------------
(* findSingleDifference: start and end are -1 for Python's None *)

Truthy(v) == v > 0      \* Python truth of None (-1) or an index: 0 is false

DiffResult(isNone, start, end) == [none |-> isNone, start |-> start, end |-> end]

RECURSIVE findSingleDifferenceLoop(_, _, _, _, _)
findSingleDifferenceLoop(s1, s2, i, start, end) ==
    IF i >= Len(s1)
    THEN IF Truthy(start) /\ ~Truthy(end)
         THEN DiffResult(FALSE, start, (i - 1) + 1)
         ELSE DiffResult(FALSE, start, end)
    ELSE IF s1[i + 1] # s2[i + 1]
         THEN IF Truthy(end)
              THEN DiffResult(TRUE, -1, -1)
              ELSE findSingleDifferenceLoop(s1, s2, i + 1,
                       IF ~Truthy(start) THEN i ELSE start, end)
         ELSE IF Truthy(start) /\ ~Truthy(end)
              THEN findSingleDifferenceLoop(s1, s2, i + 1, start, i)
              ELSE findSingleDifferenceLoop(s1, s2, i + 1, start, end)

findSingleDifference(s1, s2) ==
    IF Len(s1) # Len(s2) THEN DiffResult(TRUE, -1, -1)
    ELSE findSingleDifferenceLoop(s1, s2, 0, -1, -1)

\* len(s[start:end]) with None bounds
SliceLen(s, start, end) ==
    LET lo == IF start = -1 THEN 0 ELSE start
        hi == IF end = -1 THEN Len(s) ELSE end
    IN  IF hi > lo THEN hi - lo ELSE 0

\* The pairing test of two read ids, lines 226-230.  sorted(x, y) takes y as
\* the cmp argument: a slice of two or more characters calls it (TypeError),
\* a shorter one yields a list, which never equals the tuple ('1', '2').
PairedIdCheck(id1, id2) ==
    IF id1 = id2 THEN "ok"
    ELSE LET diff == findSingleDifference(id1, id2)
         IN  IF diff.none THEN "id_mismatch"
             ELSE IF SliceLen(id1, diff.start, diff.end) >= 2 THEN "TypeError"
             ELSE "id_mismatch"

----------------------------------------------------------------------------
(* The study functions: each returns [details, err] *)

Studied(d, err) == [details |-> d, err |-> err]

LengthClass(maxReadLength) ==
    IF maxReadLength >= MAX_SHORT_READ_LENGTH THEN "long" ELSE "short"

\* studyFastaReads(item, details): item is a bare file name, opened in the
\* current directory and used as the key of details['reads']
studyFastaReads(d, wf, cw, base) ==
    LET f == CwdFile(cw, wf, base)
        readNumber == IF f.fmt = "fasta" THEN f.nrec ELSE 0
        item == SingleId(base)
    IN  IF ~f.exists THEN Studied(d, "IOError")
        ELSE IF readNumber = 0 THEN Studied(d, "ZeroDivisionError")
        ELSE IF item \notin DOMAIN d.reads THEN Studied(d, "KeyError")
        ELSE Studied(
               [d EXCEPT !.reads[item].max_read_len = f.max_len,
                         !.reads[item].num_reads = readNumber,
                         !.reads[item].platform = "fasta",
                         !.reads[item].length_class = LengthClass(f.max_len),
                         !.platform["fasta"] =
                             IF InSeq(item, @) THEN @ ELSE Append(@, item)],
               "")

studySingleReads(d, wf, cw, item) ==
    LET f == CwdFile(cw, wf, item.f1)
        d1 == [d EXCEPT !.reads[item].layout = "single-end",
                        !.reads[item].num_reads = 0]
    IN  IF ~f.exists THEN Studied(d1, "IOError")
        ELSE IF f.fmt = "fasta" THEN studyFastaReads(d1, wf, cw, item.f1)
        ELSE IF f.nrec = 0 THEN Studied(d1, "")
        ELSE Studied(
               [d1 EXCEPT !.reads[item].max_read_len = f.max_len,
                          !.reads[item].num_reads = f.nrec,
                          !.reads[item].length_class = LengthClass(f.max_len),
                          \* prev_read_id stays None: the id test never runs
                          !.reads[item].interleaved = TRUE],
               "")

studyPairedReads(d, wf, cw, item) ==
    LET F1 == FileAt(Path("work", item.f1), wf)
        F2 == FileAt(Path("work", item.f2), wf)
        d1 == [d EXCEPT !.reads[item].layout = "paired-end",
                        !.reads[item].length_class = "na",
                        !.reads[item].num_reads = 0]
        idCheck == PairedIdCheck(F1.id, F2.id)
        d2 == IF idCheck = "id_mismatch"
              THEN [d1 EXCEPT !.reads[item].problem = Append(@, "id_mismatch")]
              ELSE d1
        maxReadLength == IF F1.max_len >= F2.max_len THEN F1.max_len ELSE F2.max_len
        d3 == [d2 EXCEPT !.reads[item].max_read_len = maxReadLength,
                         !.reads[item].num_reads = F1.nrec,
                         !.reads[item].length_class = LengthClass(maxReadLength)]
    IN  IF F1.fmt = "fasta"
        THEN LET s1 == studyFastaReads(d1, wf, cw, item.f1)
             IN  IF s1.err # "" THEN s1
                 ELSE studyFastaReads(s1.details, wf, cw, item.f2)
        ELSE IF F1.nrec > 0 /\ idCheck = "TypeError" THEN Studied(d1, "TypeError")
        ELSE IF F1.nrec = 0 THEN Studied(d1, "ZeroDivisionError")
        ELSE IF maxReadLength >= MAX_SHORT_READ_LENGTH
             THEN Studied([d3 EXCEPT !.reads[item].problem =
                               Append(@, "paired reads appear to be long")], "")
             ELSE Studied(d3, "")

----------------------------------------------------------------------------
(* registerReads: returns [details, workfiles, ret, err] *)

Registered(d, wf, ret, err) == [details |-> d, workfiles |-> wf, ret |-> ret, err |-> err]

NewReadStruct ==
    [file |-> <<>>, problem |-> <<>>, layout |-> "na", platform |-> "na",
     length_class |-> "na", interleaved |-> FALSE, supercedes |-> None,
     superceded_by |-> None, num_reads |-> 0, max_read_len |-> 0]

\* os.symlink(read, WORK_DIR/file) unless the file is in WORK_DIR already;
\* os.symlink raises OSError when the link name exists
Symlink(wf, p) ==
    IF p.dir = "work" THEN [workfiles |-> wf, err |-> ""]
    ELSE IF p.base \in DOMAIN wf THEN [workfiles |-> wf, err |-> "OSError"]
    ELSE [workfiles |-> (p.base :> FileTable(p)) @@ wf, err |-> ""]

\* as PairedRegisteredName, without sorted(): delim.join((file1, file2))
PairedRegisteredName_unsorted(delim, file1, file2) == Id(delim, file1, file2)

\* delim.join(sorted((file1, file2)))
PairedRegisteredName(delim, file1, file2) ==
    Id(delim, SortedPair(file1, file2)[1], SortedPair(file1, file2)[2])

\* as IndexAfterRegister, but the superceded name is removed and the new one
\* appended at the end of the list
IndexAfterRegister_append(d, registeredName, platform, supercedes) ==
    IF supercedes # None
    THEN IF supercedes \in DOMAIN d.reads
         THEN LET plat == d.reads[supercedes].platform
                  index == IndexOf(supercedes, d.platform[plat])
              IN  IF index = 0 THEN d.platform
                  ELSE [d.platform EXCEPT ![plat] =
                           Append(SelectSeq(@, LAMBDA x : x # supercedes), registeredName)]
         ELSE d.platform
    ELSE IF platform # "None"
         THEN [d.platform EXCEPT ![platform] = Append(@, registeredName)]
         ELSE d.platform

\* The platform index after line 127-144
IndexAfterRegister(d, registeredName, platform, supercedes) ==
    IF supercedes # None
    THEN IF supercedes \in DOMAIN d.reads
         THEN LET plat == d.reads[supercedes].platform
                  index == IndexOf(supercedes, d.platform[plat])
              IN  IF index = 0 THEN d.platform
                  ELSE [d.platform EXCEPT ![plat][index] = registeredName]
         ELSE d.platform
    ELSE IF platform # "None"
         THEN [d.platform EXCEPT ![platform] = Append(@, registeredName)]
         ELSE d.platform

\* lines 127-155: enter the read set, then study it
RegisterEntry(d, wf, cw, spec, readStruct, registeredName, platform, supercedes) ==
    LET superceding == supercedes # None
        known == superceding /\ supercedes \in DOMAIN d.reads
        plat == IF known THEN d.reads[supercedes].platform
                ELSE IF ~superceding /\ platform # "None" THEN platform
                ELSE "na"
        rs == [readStruct EXCEPT !.supercedes = supercedes, !.platform = plat]
        d1 == IF superceding
              THEN [d EXCEPT !.derived_reads = Append(@, registeredName)]
              ELSE d
        d2 == IF known
              THEN [d1 EXCEPT !.reads[supercedes].superceded_by = registeredName]
              ELSE d1
        d3 == [d2 EXCEPT !.platform =
                   IndexAfterRegister(d2, registeredName, platform, supercedes)]
        d4 == IF registeredName \in DOMAIN d3.reads
              THEN AddProblem(d3, "registered name already in details[reads]", spec)
              ELSE d3
        d5 == [d4 EXCEPT !.reads = (registeredName :> rs) @@ [k \in DOMAIN @ \ {registeredName} |-> @[k]]]
        st == IF Len(rs.file) = 2
              THEN studyPairedReads(d5, wf, cw, registeredName)
              ELSE studySingleReads(d5, wf, cw, registeredName)
    IN  IF known /\ plat \notin DOMAIN d.platform
        THEN Registered(d2, wf, None, "KeyError")
        ELSE Registered(st.details, wf, IF st.err = "" THEN registeredName ELSE None, st.err)

registerReads(d0, wf, cw, reads, platform, interleaved, supercedes) ==
    IF InSeq(reads, d0.original_items)
    THEN Registered(AddProblem(d0, "duplicate registration of reads", reads), wf, None, "")
    ELSE
    LET d == [d0 EXCEPT !.original_items = Append(@, reads)]
    IN  IF reads.delim # ""
        THEN \* ":" in reads or "%" in reads; delim is bound only for ":"
             IF reads.delim # ":" THEN Registered(d, wf, None, "UnboundLocalError")
             ELSE IF ~FileAt(reads.p1, wf).exists \/ ~FileAt(reads.p2, wf).exists
                  THEN Registered(AddProblem(d, "file does not exist", reads), wf, None, "")
             ELSE LET l1 == Symlink(wf, reads.p1)
                      l2 == Symlink(l1.workfiles, reads.p2)
                      file1 == reads.p1.base
                      file2 == reads.p2.base
                  IN  IF l1.err # "" THEN Registered(d, wf, None, l1.err)
                      ELSE IF l2.err # "" THEN Registered(d, l1.workfiles, None, l2.err)
                      ELSE RegisterEntry(d, l2.workfiles, cw, reads,
                               [NewReadStruct EXCEPT !.file = <<file1, file2>>],
                               PairedRegisteredName(reads.delim, file1, file2),
                               platform, supercedes)
        ELSE IF ~FileAt(reads.p1, wf).exists
             THEN Registered(AddProblem(d, "file does not exist", reads), wf, None, "")
             ELSE LET l1 == Symlink(wf, reads.p1)
                      file1 == reads.p1.base
                  IN  IF l1.err # "" THEN Registered(d, wf, None, l1.err)
                      ELSE RegisterEntry(d, l1.workfiles, cw, reads,
                               [NewReadStruct EXCEPT !.file = <<file1>>,
                                                     !.interleaved = interleaved],
                               SingleId(file1), platform, supercedes)

----------------------------------------------------------------------------
(* main(): the command line *)

\* main() registers --illumina, --iontorrent, --pacbio, --nanopore, --fasta
\* in this order; --illumina and --iontorrent exclude each other
PlatformRank(p) ==
    CASE p = "illumina" -> 1 [] p = "iontorrent" -> 2 [] p = "pacbio" -> 3
      [] p = "nanopore" -> 4 [] p = "fasta" -> 5

Item(reads, platform) == [reads |-> reads, platform |-> platform]

\* item can be the next read argument after those of `items`
NextArgument(items, item) ==
    /\ Len(items) < MaxItems
    /\ \A i \in 1..Len(items) :
          /\ PlatformRank(items[i].platform) <= PlatformRank(item.platform)
          /\ ~(items[i].platform = "illumina" /\ item.platform = "iontorrent")

A == Path("cwd", NameA)
AB == Path("cwd", NameAB)

\* Read arguments of the registration runs
RegSpecs ==
    {Single(Path("cwd", b)) : b \in {NameA, NameAB, NameL, NameX, NameF, NameM, NameE}}
    \cup {Single(Path("other", NameA)), Single(Path("other", NameO))}
    \cup {Pair(A, ":", AB), Pair(AB, ":", A), Pair(A, "%", AB),
          Pair(A, ":", Path("cwd", NameM)), Pair(Path("cwd", NameM), ":", A),
          Pair(Path("cwd", NameX), ":", A), Pair(Path("cwd", NameE), ":", A),
          Pair(Path("cwd", NameE), ":", Path("cwd", NameL)),
          Pair(Path("cwd", NameF), ":", Path("cwd", NameX))}

RegItems == {Item(s, p) : s \in RegSpecs, p \in Platforms}

DefaultIterations == 2

EmptyMap == [x \in {} |-> Missing]

Details0 ==
    [original_items |-> <<>>,
     reads |-> [x \in {} |-> NewReadStruct],
     problem |-> <<>>,
     derived_reads |-> <<>>,
     platform |-> [p \in Platforms \cup {"anonymous"} |-> <<>>],
     pilon_changes |-> -1]     \* -1: the key is not set yet

NoCall == [n |-> 0, reads |-> NoSpec, platform |-> "None", supercedes |-> None, ret |-> None]

\* The contig file main() works on: how many racon and pilon runs made it,
\* whether it is the filter's output, and whether it has any content
ContigFile(racon, pilon, filtered, size) ==
    [file |-> TRUE, racon |-> racon, pilon |-> pilon, filtered |-> filtered, size |-> size]
NoContigs == [file |-> FALSE, racon |-> 0, pilon |-> 0, filtered |-> FALSE, size |-> 0]

NoLoop == [todo |-> {}, cur |-> None, iteration |-> 0]

InitCommon ==
    /\ recipe = "None"
    /\ contigs = NoContigs
    /\ calls = <<>>
    /\ stages = <<>>
    /\ loop = NoLoop
    /\ output = [contigs |-> NoContigs, run_details |-> FALSE, report |-> FALSE]
    /\ details = Details0
    /\ workfiles = EmptyMap
    /\ cwd = "launch"
    /\ pc = "register"
    /\ crash = [err |-> "", at |-> ""]
    /\ lastCall = NoCall
    /\ toRegister = {}

\* no call of the function
NoFilter == [called |-> FALSE]
NoDiff == [called |-> FALSE]
NoAnon == [files |-> <<>>]
NoDepth == [called |-> FALSE]
NoStudy == [called |-> FALSE]

InitReg ==
    /\ inputs = RegItems
    /\ filt = NoFilter
    /\ strdiff = NoDiff
    /\ depth = NoDepth
    /\ study = NoStudy
    /\ anon = NoAnon
    /\ args \in [items : {<<>>}, recipe : {"auto"},
                 trim : BOOLEAN, racon_iterations : {DefaultIterations},
                 pilon_iterations : {DefaultIterations}, pilon_jar : {"pilon.jar"}]
    /\ InitCommon

----------------------------------------------------------------------------
(* main(), lines 1865-1899: registration and trimming *)

Call(r, reads, platform, supercedes) ==
    [n |-> lastCall.n + 1, reads |-> reads, platform |-> platform,
     supercedes |-> supercedes, ret |-> r.ret]

\* The effect of one registerReads call made at position `at` of main()
DoRegister(r, at, next) ==
    /\ details' = r.details
    /\ workfiles' = r.workfiles
    /\ IF r.err # ""
       THEN pc' = "Crashed" /\ crash' = [err |-> r.err, at |-> at]
       ELSE pc' = next /\ UNCHANGED crash

\* for item in args.<platform>: registerReads(item, details, platform=platform)
MainRegister ==
    /\ pc = "register"
    /\ \E item \in inputs :
          LET r == registerReads(details, workfiles, cwd, item.reads, item.platform, FALSE, None)
          IN  /\ NextArgument(args.items, item)
              /\ args' = [args EXCEPT !.items = Append(@, item)]
              /\ DoRegister(r, "registerReads", "register")
              /\ lastCall' = Call(r, item.reads, item.platform, None)
    /\ UNCHANGED <<fixed, cwd, toRegister, runvars>>

\* os.chdir(WORK_DIR), line 1896
MainChdir ==
    /\ pc = "register"
    /\ cwd' = "work"
    /\ pc' = "trim"
    /\ UNCHANGED <<fixed, args, details, workfiles, crash, lastCall, toRegister, runvars>>

\* trim_galore names its output after its input
TrimmedName(base) == base \o <<95, 116>>

TrimmedSpec(reads) ==
    IF reads.delim = ":"
    THEN Pair(Path("work", TrimmedName(reads.f1)), ":", Path("work", TrimmedName(reads.f2)))
    ELSE Single(Path("work", TrimmedName(reads.f1)))

TrimCandidates(d) ==
    {reads \in DOMAIN d.reads :
        d.reads[reads].length_class = "short" /\ d.reads[reads].platform # "fasta"}

\* The files trim_galore writes for the read sets in `done`
TrimmedFiles(wf, done) ==
    LET bases == UNION {IF r.delim = ":" THEN {r.f1, r.f2} ELSE {r.f1} : r \in done}
        new == {TrimmedName(b) : b \in bases}
        source(t) == CHOOSE b \in bases : TrimmedName(b) = t
    IN  [t \in new \cup DOMAIN wf |->
            IF t \in new THEN FileAt(Path("work", source(t)), wf) ELSE wf[t]]

\* trimGalore, lines 433-488: trim_galore names its output for the read sets
\* in `done` and not for the other candidates
trimGalore_run(d, done) ==
    [d EXCEPT !.reads = [reads \in DOMAIN @ |->
        IF reads \in TrimCandidates(d) \ done
        THEN [@[reads] EXCEPT !.problem = Append(@, "trim_galore did not name trimmed reads")]
        ELSE @[reads]]]

MainTrim ==
    /\ pc = "trim"
    /\ IF args.trim /\ details.platform["illumina"] \o details.platform["iontorrent"] # <<>>
       THEN \E done \in SUBSET TrimCandidates(details) :
               /\ details' = trimGalore_run(details, done)
               /\ workfiles' = TrimmedFiles(workfiles, done)
               /\ toRegister' = {[trimReads |-> TrimmedSpec(reads), reads |-> reads] : reads \in done}
               /\ pc' = "trim_register"
       ELSE /\ pc' = "select"
            /\ UNCHANGED <<details, workfiles, toRegister>>
    /\ UNCHANGED <<fixed, args, cwd, crash, lastCall, runvars>>

\* for trimReads in toRegister: registerReads(trimReads, details, supercedes=...)
TrimRegister ==
    /\ pc = "trim_register"
    /\ \E e \in toRegister :
          LET r == registerReads(details, workfiles, cwd, e.trimReads, "None", FALSE, e.reads)
          IN  /\ DoRegister(r, "trimGalore", "trim_register")
              /\ lastCall' = Call(r, e.trimReads, "None", e.reads)
              /\ toRegister' = toRegister \ {e}
    /\ UNCHANGED <<fixed, args, cwd, runvars>>

TrimDone ==
    /\ pc = "trim_register"
    /\ toRegister = {}
    /\ pc' = "select"
    /\ UNCHANGED <<fixed, args, details, workfiles, cwd, crash, lastCall, toRegister, runvars>>

NextReg == MainRegister \/ MainChdir \/ MainTrim \/ TrimRegister \/ TrimDone

SpecReg == InitReg /\ [][NextReg]_vars

----------------------------------------------------------------------------
(* main(), lines 1901-1922: recipe selection and assembly *)

\* contigs and os.path.getsize(contigs)
Usable(c) == c.file /\ c.size > 0

Fail(err, at) == pc' = "Crashed" /\ crash' = [err |-> err, at |-> at]

\* One run of an external tool on read sets; kdirs, restart_from and k are
\* the K* directories SPAdes left and the restart arguments, if any
Invocation(tool, reads, out) ==
    [tool |-> tool, reads |-> reads, out |-> out, kdirs |-> {}, restart_from |-> 0, k |-> {}]

\* as AutoRecipe, with the rule of lines 1910-1914 instead
AutoRecipe_longFirst(d) ==
    IF d.platform["pacbio"] \o d.platform["nanopore"] # <<>>
    THEN "canu" ELSE "unicycler"

\* the rule of lines 1903-1908
AutoRecipe(d) ==
    IF d.platform["illumina"] \o d.platform["iontorrent"] # <<>>
    THEN "unicycler" ELSE "canu"

SelectRecipe ==
    /\ pc = "select"
    /\ recipe' = IF args.recipe = "auto" THEN AutoRecipe(details) ELSE args.recipe
    /\ stages' = Append(stages, "SelectRecipe")
    /\ pc' = "assemble"
    /\ UNCHANGED <<regvars_but_pc, contigs, calls, loop, output>>

\* as StageAfter, with the two polishing blocks in the other order
StageAfter_shortFirst(stage) ==
    CASE stage = "assemble" -> "polish_short"
      [] stage = "polish_short" -> "polish_long"
      [] stage = "polish_long" -> "filter"
      [] stage = "filter" -> "finish"

\* The stage main() goes to when it leaves a stage
StageAfter(stage) ==
    CASE stage = "assemble" -> "polish_long"
      [] stage = "polish_long" -> "polish_short"
      [] stage = "polish_short" -> "filter"
      [] stage = "filter" -> "finish"

Live(d, item) == d.reads[item].superceded_by = None

\* writeSpadesYamlFile: the read sets of the dataset file
SpadesDataset(d) ==
    UNION {{d.platform[p][i] : i \in 1..Len(d.platform[p])} : p \in Platforms}

\* runSpades, lines 1259-1320.  A failed first run with two or more K*
\* directories reaches command.extend(a, b, c, d), which raises TypeError
RunSpades ==
    /\ pc = "assemble"
    /\ recipe \in {"spades", "meta-spades", "plasmid-spades", "single-cell"}
    /\ stages' = Append(stages, "Assemble")
    /\ \E out \in {"ok", "empty", "failed"} :
       \E kdirs \in IF out = "failed" THEN {{}, {21}, {21, 33}, {21, 33, 55}} ELSE {{}} :
          LET first == [Invocation("spades", SpadesDataset(details), out) EXCEPT !.kdirs = kdirs]
              d1 == AddProblem(details, "spades return code, see if we can restart", NoSpec)
          IN  /\ calls' = Append(calls, first)
              /\ IF out = "failed"
                 THEN IF Cardinality(kdirs) > 1
                      THEN /\ details' = d1
                           /\ Fail("TypeError", "runSpades")
                           /\ UNCHANGED contigs
                      ELSE /\ details' = AddProblem(d1, "SPAdes failed to generate contigs file", NoSpec)
                           /\ contigs' = NoContigs
                           /\ pc' = StageAfter("assemble")
                           /\ UNCHANGED crash
                 ELSE /\ contigs' = ContigFile(0, 0, FALSE, IF out = "ok" THEN 1 ELSE 0)
                      /\ pc' = StageAfter("assemble")
                      /\ UNCHANGED <<details, crash>>
    /\ UNCHANGED <<fixed, args, workfiles, cwd, lastCall, toRegister, recipe, loop, output>>

\* the last item of a class the loop of lines 1150-1161 comes to, in any
\* order of the dictionary
LastOf(items) == IF items = {} THEN {None} ELSE items

\* runUnicycler, lines 1135-1221.  With neither unicycler.log nor
\* assembly.fasta, unicyclerLogFile is unbound at line 1201
RunUnicycler ==
    /\ pc = "assemble"
    /\ recipe = "unicycler"
    /\ stages' = Append(stages, "Assemble")
    /\ LET live == {item \in DOMAIN details.reads : Live(details, item)}
           short == {item \in live : details.reads[item].length_class = "short"}
           paired == {item \in short : Len(details.reads[item].file) > 1}
       IN  \E short12 \in LastOf(paired), unpaired \in LastOf(short \ paired),
              long_reads \in LastOf(live \ short) :
           \E out \in {"ok", "empty", "failed", "failed without log"} :
              /\ calls' = Append(calls,
                     Invocation("unicycler", {short12, unpaired, long_reads} \ {None}, out))
              /\ CASE out = "failed without log" ->
                        /\ Fail("UnboundLocalError", "runUnicycler")
                        /\ UNCHANGED <<details, contigs>>
                   [] out = "failed" ->
                        /\ details' = AddProblem(details, "Unicycler failed to generate assembly file", NoSpec)
                        /\ contigs' = NoContigs
                        /\ pc' = StageAfter("assemble")
                        /\ UNCHANGED crash
                   [] OTHER ->
                        /\ contigs' = ContigFile(0, 0, FALSE, IF out = "ok" THEN 1 ELSE 0)
                        /\ pc' = StageAfter("assemble")
                        /\ UNCHANGED <<details, crash>>
    /\ UNCHANGED <<fixed, args, workfiles, cwd, lastCall, toRegister, recipe, loop, output>>

\* runCanu, lines 1596-1613: the read sets of the command line
CanuReads(d) ==
    {item \in DOMAIN d.reads : d.reads[item].platform \in {"pacbio", "fasta", "nanopore"}}

\* runCanu, lines 1575-1659
RunCanu ==
    /\ pc = "assemble"
    /\ recipe = "canu"
    /\ stages' = Append(stages, "Assemble")
    /\ IF CanuReads(details) = {}
       THEN /\ details' = AddProblem(details, "no long read files available for canu", NoSpec)
            /\ contigs' = NoContigs
            /\ UNCHANGED calls
       ELSE \E out \in {"ok", "empty", "failed"} :
               /\ calls' = Append(calls, Invocation("canu", CanuReads(details), out))
               /\ IF out = "failed"
                  THEN /\ details' = AddProblem(details, "Canu failed to generate contigs file", NoSpec)
                       /\ contigs' = NoContigs
                  ELSE /\ contigs' = ContigFile(0, 0, FALSE, IF out = "ok" THEN 1 ELSE 0)
                       /\ UNCHANGED details
    /\ pc' = StageAfter("assemble")
    /\ UNCHANGED <<fixed, args, workfiles, cwd, crash, lastCall, toRegister, recipe, loop, output>>

----------------------------------------------------------------------------
(* main(), lines 1924-1950: the polishing loops *)

\* if contigs and os.path.getsize(contigs): enter the loop over details['reads']
EnterLoop(stage, name, body) ==
    /\ pc = stage
    /\ IF Usable(contigs)
       THEN /\ pc' = body
            /\ stages' = Append(stages, name)
            /\ loop' = [todo |-> DOMAIN details.reads, cur |-> None, iteration |-> 0]
       ELSE /\ pc' = StageAfter(stage)
            /\ UNCHANGED <<stages, loop>>
    /\ UNCHANGED <<regvars_but_pc, recipe, contigs, calls, output>>

PolishLong == EnterLoop("polish_long", "PolishLong", "racon_loop")

PolishShort == EnterLoop("polish_short", "PolishShort", "pilon_loop")

\* The read sets the loop can come to next: the one being polished, or any
\* candidate not yet visited (the dictionary's order is not determined)
NextReads(candidates) ==
    IF loop.cur # None THEN {loop.cur} ELSE loop.todo \cap candidates

\* the loop state after an iteration: go on with the same read set, or
\* leave it (break, or the iterations are used up)
LoopAfter(item, goOn, iterations) ==
    IF goOn /\ loop.iteration + 1 < iterations
    THEN [todo |-> loop.todo \ {item}, cur |-> item, iteration |-> loop.iteration + 1]
    ELSE [todo |-> loop.todo \ {item}, cur |-> None, iteration |-> 0]

LongReads(d) == {item \in DOMAIN d.reads : d.reads[item].length_class = "long"}

\* One iteration of lines 1928-1934 with runRacon, lines 1395-1421.  When
\* runMinimap returns None, the racon command holds None: TypeError
Racon ==
    /\ pc = "racon_loop"
    /\ \E longReadFile \in NextReads(LongReads(details)) :
       \E out \in {"minimap failed", "racon failed", "racon output too small", "ok"} :
          /\ calls' = Append(calls, Invocation("racon", {longReadFile}, out))
          /\ IF out = "minimap failed"
             THEN /\ Fail("TypeError", "runRacon")
                  /\ UNCHANGED <<contigs, loop>>
             ELSE /\ contigs' = IF out = "ok" THEN [contigs EXCEPT !.racon = @ + 1] ELSE contigs
                  /\ loop' = LoopAfter(longReadFile, out = "ok", args.racon_iterations)
                  /\ UNCHANGED <<pc, crash>>
    /\ UNCHANGED <<fixed, args, details, workfiles, cwd, lastCall, toRegister, recipe, stages, output>>

RaconDone ==
    /\ pc = "racon_loop"
    /\ NextReads(LongReads(details)) = {}
    /\ pc' = StageAfter("polish_long")
    /\ loop' = NoLoop
    /\ UNCHANGED <<regvars_but_pc, recipe, contigs, calls, stages, output>>

\* lines 1939-1941: not superceded, and short
ShortReads(d) ==
    {item \in DOMAIN d.reads : Live(d, item) /\ d.reads[item].length_class = "short"}

\* as PilonGoesOn, without the break of line 1949
PilonGoesOn_always(changes) == TRUE

\* if details['pilon_changes'] == 0: break, line 1949
PilonGoesOn(changes) == changes # 0

\* One iteration of lines 1942-1950 with runPilon, lines 1462-1501
Pilon ==
    /\ pc = "pilon_loop"
    /\ \E shortReadFastq \in NextReads(ShortReads(details)) :
          CASE args.pilon_jar = "None" ->
                  \* os.path.exists(None)
                  /\ Fail("TypeError", "runPilon")
                  /\ calls' = Append(calls, Invocation("pilon", {shortReadFastq}, "no jar"))
                  /\ UNCHANGED <<details, contigs, loop>>
            [] args.pilon_jar = "missing" ->
                  /\ details' = AddProblem(details, "jarfile not found", NoSpec)
                  /\ calls' = Append(calls, Invocation("pilon", {shortReadFastq}, "no jar"))
                  /\ loop' = LoopAfter(shortReadFastq, FALSE, args.pilon_iterations)
                  /\ UNCHANGED <<pc, crash, contigs>>
            [] OTHER ->
                  \E out \in {"bowtie failed", "pilon failed", "ok"} :
                  \E changes \in IF out = "ok" THEN 0..MaxChanges ELSE {details.pilon_changes} :
                     /\ calls' = Append(calls,
                            Invocation("pilon", {shortReadFastq},
                                       IF out # "ok" THEN out
                                       ELSE IF changes = 0 THEN "no changes" ELSE "changes"))
                     /\ details' = [details EXCEPT !.pilon_changes = changes]
                     /\ contigs' = IF out = "ok" THEN [contigs EXCEPT !.pilon = @ + 1] ELSE contigs
                     /\ loop' = LoopAfter(shortReadFastq, out = "ok" /\ PilonGoesOn(changes),
                                          args.pilon_iterations)
                     /\ UNCHANGED <<pc, crash>>
    /\ UNCHANGED <<fixed, args, workfiles, cwd, lastCall, toRegister, recipe, stages, output>>

PilonDone ==
    /\ pc = "pilon_loop"
    /\ NextReads(ShortReads(details)) = {}
    /\ pc' = StageAfter("polish_short")
    /\ loop' = NoLoop
    /\ UNCHANGED <<regvars_but_pc, recipe, contigs, calls, stages, output>>

----------------------------------------------------------------------------
(* main(), lines 1952-1972: filtering, saving and reporting *)

\* filterContigsByMinLength returns its output file, or None when no contig
\* passed; main() keeps the unfiltered contigs then (line 1954)
FilterContigs ==
    /\ pc = "filter"
    /\ IF Usable(contigs)
       THEN /\ stages' = Append(stages, "FilterContigs")
            /\ \E passed \in BOOLEAN :
                  /\ calls' = Append(calls, Invocation("filter", {},
                                 IF passed THEN "ok" ELSE "no contigs passed"))
                  /\ contigs' = IF passed THEN [contigs EXCEPT !.filtered = TRUE] ELSE contigs
       ELSE UNCHANGED <<stages, calls, contigs>>
    /\ pc' = StageAfter("filter")
    /\ UNCHANGED <<regvars_but_pc, recipe, loop, output>>

\* lines 1956-1972: save the contigs, write run_details.json and the report
Finish ==
    /\ pc = "finish"
    /\ output' = [contigs |-> IF Usable(contigs) THEN contigs ELSE NoContigs,
                  run_details |-> TRUE, report |-> TRUE]
    /\ stages' = Append(stages, "Done")
    /\ pc' = "Done"
    /\ UNCHANGED <<regvars_but_pc, recipe, contigs, calls, loop>>

----------------------------------------------------------------------------
(* The run of main() *)

\* Read arguments of the pipeline runs
PipeItems ==
    {Item(Single(A), "illumina"), Item(Pair(A, ":", AB), "illumina"),
     Item(Single(AB), "iontorrent"), Item(Single(AB), "pacbio"),
     Item(Single(Path("cwd", NameL)), "pacbio"),
     Item(Single(Path("cwd", NameL)), "nanopore"),
     Item(Single(Path("cwd", NameX)), "fasta")}

Init ==
    /\ inputs = PipeItems
    /\ filt = NoFilter
    /\ strdiff = NoDiff
    /\ depth = NoDepth
    /\ study = NoStudy
    /\ anon = NoAnon
    /\ args \in [items : {<<>>}, recipe : {"auto", "unicycler", "canu", "spades"},
                 trim : BOOLEAN, racon_iterations : 1..MaxIterations,
                 pilon_iterations : 1..MaxIterations,
                 pilon_jar : {"None", "missing", "pilon.jar"}]
    /\ InitCommon

Next ==
    \/ MainRegister \/ MainChdir \/ MainTrim \/ TrimRegister \/ TrimDone
    \/ SelectRecipe \/ RunSpades \/ RunUnicycler \/ RunCanu
    \/ PolishLong \/ Racon \/ RaconDone
    \/ PolishShort \/ Pilon \/ PilonDone
    \/ FilterContigs \/ Finish

Spec == Init /\ [][Next]_vars

----------------------------------------------------------------------------
(* Properties of the registry *)

\* The registered name registerReads gives a raw spec
RegisteredNameOf(spec) ==
    IF spec.delim = "" THEN SingleId(spec.p1.base)
    ELSE PairedRegisteredName(spec.delim, spec.p1.base, spec.p2.base)

FilesExist(spec, wf) ==
    FileAt(spec.p1, wf).exists /\ (spec.delim = "" \/ FileAt(spec.p2, wf).exists)

\* Number of occurrences of a name in all lists of the platform index
Occurrences(id, d) ==
    Cardinality(UNION {{<<p, i>> : i \in {j \in 1..Len(d.platform[p]) : d.platform[p][j] = id}} :
                       p \in DOMAIN d.platform})

\* This step is a registerReads call
IsRegisterCall == lastCall'.n = lastCall.n + 1

TimesGiven(spec, items) == Cardinality({i \in 1..Len(items) : items[i].reads = spec})

\* C1: a second registerReads call with the same raw spec, whose files exist
\* and whose first call registered it, is rejected (None) and changes nothing
\* but the problem list; the registry then has the entry of that spec, one
\* occurrence of its name in the platform index and one duplicate problem.
C1_DuplicateRegistration ==
    [][(/\ IsRegisterCall
        /\ InSeq(lastCall'.reads, details.original_items)
        /\ FilesExist(lastCall'.reads, workfiles)
        /\ RegisteredNameOf(lastCall'.reads) \in DOMAIN details.reads)
       => LET spec == lastCall'.reads
              id == RegisteredNameOf(spec)
          IN  /\ lastCall'.ret = None
              /\ details'.reads = details.reads
              /\ details'.platform = details.platform
              /\ details'.original_items = details.original_items
              /\ details'.derived_reads = details.derived_reads
              /\ workfiles' = workfiles
              /\ id \in DOMAIN details'.reads
              /\ Occurrences(id, details') = 1
              /\ (TimesGiven(spec, args'.items) = 2
                    => Count(Problem("duplicate registration of reads", spec),
                             details'.problem) = 1)
      ]_vars

\* C2: a registerReads call whose spec names a missing file is rejected and
\* leaves reads, the platform index, derived_reads and original_items as
\* they were before the call.
C2_MissingFileLeavesRegistry ==
    [][(/\ IsRegisterCall
        /\ ~InSeq(lastCall'.reads, details.original_items)
        /\ lastCall'.reads.delim \in {"", ":"}
        /\ ~FilesExist(lastCall'.reads, workfiles))
       => /\ lastCall'.ret = None
          /\ details'.reads = details.reads
          /\ details'.platform = details.platform
          /\ details'.derived_reads = details.derived_reads
          /\ details'.original_items = details.original_items
      ]_vars

C4_SupersedeInPlace ==
    [][(/\ IsRegisterCall
        /\ lastCall'.supercedes # None
        /\ lastCall'.ret # None
        /\ lastCall'.supercedes \in DOMAIN details.reads
        /\ InSeq(lastCall'.supercedes,
                 details.platform[details.reads[lastCall'.supercedes].platform]))
       => LET old == lastCall'.supercedes
              new == lastCall'.ret
              plat == details.reads[old].platform
              before == details.platform[plat]
              after == details'.platform[plat]
              k == IndexOf(old, before)
          IN  /\ Len(after) = Len(before)
              /\ after[k] = new
              /\ \A j \in 1..Len(before) : j # k => after[j] = before[j]
              /\ ~InSeq(old, after)
              /\ new \in DOMAIN details'.reads
              /\ details'.reads[new].supercedes = old
              /\ old \in DOMAIN details'.reads
              /\ details'.reads[old].superceded_by = new
      ]_vars

\* a read set that was first of two in its platform's list has been replaced
C4_Witness ==
    /\ lastCall.supercedes # None
    /\ lastCall.ret # None
    /\ \E p \in Platforms :
          /\ Len(details.platform[p]) = 2
          /\ details.platform[p][1] = lastCall.ret
          /\ details.reads[lastCall.supercedes].superceded_by = lastCall.ret

----------------------------------------------------------------------------
(* Properties of the orchestrator *)

CallsOf(tools) == {i \in 1..Len(calls) : calls[i].tool \in tools}

Assemblers == {"unicycler", "canu", "spades"}
Polishers == {"racon", "pilon"}

\* C5: no read set whose entry has superceded_by set is passed to an
\* assembler run (unicycler, canu, the spades dataset) or to a polisher run
\* (racon, pilon).
C5_SupersededNeverUsed ==
    \A i \in CallsOf(Assemblers \cup Polishers) :
       \A item \in calls[i].reads : details.reads[item].superceded_by = None

\* C6: with recipe "auto" the recipe is unicycler if and only if an illumina
\* or iontorrent read set is in the platform index, canu otherwise; any
\* other recipe is used as given.
C6_RecipeSelection ==
    recipe # "None"
    => recipe = IF args.recipe # "auto" THEN args.recipe
                ELSE IF Len(details.platform["illumina"]) + Len(details.platform["iontorrent"]) > 0
                     THEN "unicycler"
                     ELSE "canu"

\* auto with short and long reads registered chose unicycler
C6_Witness ==
    /\ args.recipe = "auto"
    /\ recipe = "unicycler"
    /\ details.platform["illumina"] # <<>>
    /\ details.platform["pacbio"] # <<>>

PastAssembly ==
    pc \in {"polish_long", "racon_loop", "polish_short", "pilon_loop", "filter", "finish", "Done"}

\* C7: whatever the external tools do, the run has no unhandled error after
\* its inputs are registered: it comes to Done with run_details.json and the
\* report written and the contigs it had (or none) saved; and when the
\* assembler gave no contigs, no polisher and no contig filter is run.
C7_NeverUnhandledError ==
    /\ pc = "Crashed" => crash.at \in {"registerReads", "trimGalore"}
    /\ pc = "Done" => /\ output.run_details /\ output.report
                      /\ output.contigs = IF Usable(contigs) THEN contigs ELSE NoContigs
    /\ (PastAssembly /\ contigs = NoContigs) => CallsOf(Polishers \cup {"filter"}) = {}

StageRank(stage) ==
    CASE stage = "SelectRecipe" -> 1 [] stage = "Assemble" -> 2
      [] stage = "PolishLong" -> 3 [] stage = "PolishShort" -> 4
      [] stage = "FilterContigs" -> 5 [] stage = "Done" -> 6

ToolRank(tool) ==
    CASE tool \in Assemblers -> 2 [] tool = "racon" -> 3
      [] tool = "pilon" -> 4 [] tool = "filter" -> 5

\* C8: the stages are entered in the order SelectRecipe, Assemble,
\* PolishLong, PolishShort, FilterContigs, Done, none twice; the assembler
\* runs before any polisher, no racon run follows a pilon run, and the
\* filter runs after every polisher run, in the stage of its name.
C8_StageOrder ==
    /\ \A i, j \in 1..Len(stages) : i < j => StageRank(stages[i]) < StageRank(stages[j])
    /\ \A i, j \in 1..Len(calls) : i < j => ToolRank(calls[i].tool) <= ToolRank(calls[j].tool)
    /\ \A i \in 1..Len(calls) :
          \E k \in 1..Len(stages) : StageRank(stages[k]) = ToolRank(calls[i].tool)
    /\ Cardinality(CallsOf({"filter"})) <= 1
    /\ (CallsOf({"filter"}) # {} => pc \in {"finish", "Done"})

\* a run through all six stages with racon, pilon and the filter run
C8_Witness ==
    /\ pc = "Done"
    /\ stages = <<"SelectRecipe", "Assemble", "PolishLong", "PolishShort", "FilterContigs", "Done">>
    /\ CallsOf({"racon"}) # {} /\ CallsOf({"pilon"}) # {} /\ CallsOf({"filter"}) # {}

Max(S) == CHOOSE x \in S : \A y \in S : y <= x

\* C9: when SPAdes fails without contigs and two or more K* checkpoints
\* exist, it is run exactly once more, restarting from a checkpoint below
\* the highest with a k list without the highest k; after any other failure
\* the stage ends with null contigs; SPAdes is never run a third time.
C9_SpadesRetryOnce ==
    LET runs == CallsOf({"spades"})
        first == calls[CHOOSE i \in runs : \A j \in runs : i <= j]
        second == calls[CHOOSE i \in runs : \A j \in runs : j <= i]
    IN  /\ Cardinality(runs) <= 2
        /\ (runs # {} /\ pc # "assemble")
           => IF first.out = "failed" /\ Cardinality(first.kdirs) > 1
              THEN /\ Cardinality(runs) = 2
                   /\ second.restart_from \in first.kdirs \ {Max(first.kdirs)}
                   /\ second.k = first.kdirs \ {Max(first.kdirs)}
              ELSE /\ Cardinality(runs) = 1
                   /\ first.out = "failed" => (PastAssembly /\ contigs = NoContigs)

PilonRuns(item) == {i \in CallsOf({"pilon"}) : calls[i].reads = {item}}

\* C10: for each read set pilon is run at most pilon_iterations times, and
\* never again after a run that reported no changes (or failed): a run with
\* zero changes at iteration 1 is the only run for that read set.
C10_PilonLoop ==
    \A item \in DOMAIN details.reads :
       /\ Cardinality(PilonRuns(item)) <= args.pilon_iterations
       /\ \A i, j \in PilonRuns(item) : i < j => calls[i].out = "changes"

\* with two iterations allowed, a read set was polished once, without changes
C10_Witness ==
    /\ pc = "Done"
    /\ args.pilon_iterations >= 2
    /\ \E item \in DOMAIN details.reads :
          /\ Cardinality(PilonRuns(item)) = 1
          /\ \A i \in PilonRuns(item) : calls[i].out = "no changes"

RaconRuns(item) == {i \in CallsOf({"racon"}) : calls[i].reads = {item}}

PastPolishLong == pc \in {"polish_short", "pilon_loop", "filter", "finish", "Done"}

\* C11: for each long read set racon is run at most racon_iterations times;
\* the working contigs are replaced only by a racon run that exited zero with
\* an output of 10 bytes or more; after the first failed run for a read set
\* that set is not polished again and the loop goes on with the next long
\* read set, so that every long read set gets its turn.
C11_RaconLoop ==
    /\ \A item \in DOMAIN details.reads :
          /\ Cardinality(RaconRuns(item)) <= args.racon_iterations
          /\ \A i, j \in RaconRuns(item) : i < j => calls[i].out = "ok"
    /\ contigs.racon = Cardinality({i \in CallsOf({"racon"}) : calls[i].out = "ok"})
    /\ (\E i \in CallsOf({"racon"}) : calls[i].out # "ok")
          => ~(pc = "Crashed" /\ crash.at = "runRacon")
    /\ (PastPolishLong /\ CallsOf({"racon"}) # {})
          => \A item \in LongReads(details) : RaconRuns(item) # {}

----------------------------------------------------------------------------
(* filterContigsByMinLength, lines 1008-1113, called with a contig file and
   the read depths that calcReadDepth gave for the short and the long reads *)

MaxContigs == 2

\* default of min_contig_coverage
MinContigCoverage == 5

\* sequence lengths of the records of a contig file; 0: a header with no
\* sequence lines
ContigLengths == {0, 250, 300, 400}
MinContigLengths == {0, 300}
ShortDepths == {3, 5, 10}
LongDepths == {10}

\* A contig file: record k has the header >k and a sequence of that length
ContigFiles == UNION {[1..n -> ContigLengths] : n \in 0..MaxContigs}

\* A depth dictionary: mean depth of the contigs that have one.  The empty
\* one stands for None as well (both are false at line 1038, 1071, 1075)
DepthMaps(ids, depths) == UNION {[S -> depths] : S \in SUBSET ids}

FilterArgs ==
    UNION {[inputContigs : {f},
            shortReadDepth : DepthMaps(1..Len(f), ShortDepths),
            longReadDepth : DepthMaps(1..Len(f), LongDepths),
            min_contig_length : MinContigLengths,
            min_contig_coverage : {MinContigCoverage},
            contigCircular : {{}} \cup {{i} : i \in 1..Len(f)}] : f \in ContigFiles}

\* lines 1037-1039
no_coverage_available(shortReadDepth, longReadDepth) ==
    DOMAIN shortReadDepth = {} /\ DOMAIN longReadDepth = {}

\* lines 1070-1078
contigCoverage(seqId, shortReadDepth, longReadDepth) ==
    LET short == IF seqId \in DOMAIN shortReadDepth THEN shortReadDepth[seqId] ELSE 0
    IN  IF seqId \in DOMAIN longReadDepth /\ longReadDepth[seqId] > short
        THEN longReadDepth[seqId] ELSE short

\* the test of line 1082
KeepsContig(length, coverage, noCoverage, min_contig_length, min_contig_coverage) ==
    length >= min_contig_length /\ (noCoverage \/ coverage >= min_contig_coverage)

\* The loop of lines 1062-1095 from record k on.  st: contigIndex, the
\* records written to the output (good), those of suboptimalContigs (bad)
\* and details['circular_contigs']
RECURSIVE filterLoop(_, _, _)
filterLoop(a, k, st) ==
    IF k > Len(a.inputContigs) THEN st
    ELSE LET length == a.inputContigs[k]
         IN  IF length = 0
             THEN filterLoop(a, k + 1, st)       \* if seq: is false
             ELSE LET contigId == st.contigIndex
                      contigIndex == st.contigIndex + 1
                      coverage == contigCoverage(k, a.shortReadDepth, a.longReadDepth)
                      circular == contigIndex \in a.contigCircular
                      rec == [seqId |-> k, contigId |-> contigId, length |-> length,
                              coverage |-> coverage, circular |-> circular]
                      keep == KeepsContig(length, coverage,
                                  no_coverage_available(a.shortReadDepth, a.longReadDepth),
                                  a.min_contig_length, a.min_contig_coverage)
                  IN  filterLoop(a, k + 1,
                         [contigIndex |-> contigIndex,
                          good |-> IF keep THEN Append(st.good, rec) ELSE st.good,
                          bad |-> IF keep THEN st.bad ELSE Append(st.bad, rec),
                          circular_contigs |-> IF circular
                                               THEN Append(st.circular_contigs, contigId)
                                               ELSE st.circular_contigs])

\* os.path.getsize(outputContigs): per record the header line
\* ">contig_%d length %5d\n" and the sequence in lines of 60
RECURSIVE OutputSize(_)
OutputSize(good) ==
    IF good = <<>> THEN 0
    ELSE 23 + Head(good).length + (Head(good).length + 59) \div 60 + OutputSize(Tail(good))

filterContigsByMinLength(a) ==
    LET st == filterLoop(a, 1, [contigIndex |-> 1, good |-> <<>>, bad |-> <<>>,
                                circular_contigs |-> <<>>])
        failed == OutputSize(st.good) < 10
    IN  [outputContigs |-> st.good,
         suboptimalContigs |-> st.bad,
         circular_contigs |-> st.circular_contigs,
         contig_filtering |-> ~failed,
         ret |-> IF failed THEN "None" ELSE "contigs_depth_cov_filtered.fasta"]

NoFilterOut ==
    [outputContigs |-> <<>>, suboptimalContigs |-> <<>>, circular_contigs |-> <<>>,
     contig_filtering |-> FALSE, ret |-> "not called"]

InitFilter ==
    /\ inputs = {}
    /\ args = [items |-> <<>>, recipe |-> "auto", trim |-> FALSE,
               racon_iterations |-> DefaultIterations,
               pilon_iterations |-> DefaultIterations, pilon_jar |-> "pilon.jar"]
    /\ InitCommon
    /\ strdiff = NoDiff
    /\ depth = NoDepth
    /\ study = NoStudy
    /\ anon = NoAnon
    /\ filt \in [called : {FALSE}, arg : FilterArgs, out : {NoFilterOut}]

FilterCall ==
    /\ ~filt.called
    /\ filt' = [filt EXCEPT !.called = TRUE, !.out = filterContigsByMinLength(filt.arg)]
    /\ UNCHANGED <<inputs, strdiff, anon, depth, study, args, details, workfiles, cwd, crash, lastCall,
                   toRegister, pc, runvars>>

NextFilter == FilterCall

SpecFilter == InitFilter /\ [][NextFilter]_vars

----------------------------------------------------------------------------
(* Properties of the contig filter *)

\* the records of the contig file found in a list of written records
SeqIds(records) == {records[i].seqId : i \in 1..Len(records)}

HasDepth(seqId, a) == seqId \in DOMAIN a.shortReadDepth \cup DOMAIN a.longReadDepth

NoDepthAtAll(a) == DOMAIN a.shortReadDepth \cup DOMAIN a.longReadDepth = {}

\* the greatest mean depth the depth data give a contig
DepthOf(seqId, a) ==
    Max({a.shortReadDepth[i] : i \in {seqId} \cap DOMAIN a.shortReadDepth}
        \cup {a.longReadDepth[i] : i \in {seqId} \cap DOMAIN a.longReadDepth})

\* C12: a contig is in the filtered output if and only if its length is at
\* least min_contig_length and either there is no coverage data at all or
\* its coverage is at least min_contig_coverage; with no coverage data and
\* minimum 300 a contig of length 250 is left out and one of length 400 is
\* kept.  (Contigs missing from the depth data when there is some: see C13.)
C12_KeepRule ==
    filt.called =>
       LET a == filt.arg
       IN  \A k \in 1..Len(a.inputContigs) :
              (NoDepthAtAll(a) \/ HasDepth(k, a))
              => (k \in SeqIds(filt.out.outputContigs)
                    <=> /\ a.inputContigs[k] >= a.min_contig_length
                        /\ (NoDepthAtAll(a) \/ DepthOf(k, a) >= a.min_contig_coverage))

\* C13: when some contigs have depth data, a contig with a sequence that is
\* missing from the depth data and is at least min_contig_length long is
\* kept: it is not taken to have coverage zero.
C13_AbsentIsNotZero ==
    filt.called =>
       LET a == filt.arg
       IN  \A k \in 1..Len(a.inputContigs) :
              (/\ ~NoDepthAtAll(a)
               /\ ~HasDepth(k, a)
               /\ a.inputContigs[k] > 0
               /\ a.inputContigs[k] >= a.min_contig_length)
              => k \in SeqIds(filt.out.outputContigs)

\* C15: every record of the contig file, one with an empty sequence too, is
\* in exactly one of the filtered output and the below-threshold archive:
\* kept plus archived is the number of records of the input.
C15_NoContigDropped ==
    filt.called =>
       LET a == filt.arg
           kept == filt.out.outputContigs
           archived == filt.out.suboptimalContigs
       IN  /\ Len(kept) + Len(archived) = Len(a.inputContigs)
           /\ SeqIds(kept) \cup SeqIds(archived) = 1..Len(a.inputContigs)
           /\ SeqIds(kept) \cap SeqIds(archived) = {}

\* C14: when no contig passes the filter, no final contigs file is saved
\* (the unfiltered contigs are not saved in its place), and run_details.json
\* and the report are written all the same.
C14_NoSurvivorsNoContigs ==
    (pc = "Done" /\ \E i \in CallsOf({"filter"}) : calls[i].out = "no contigs passed")
    => /\ output.contigs = NoContigs
       /\ output.run_details
       /\ output.report

----------------------------------------------------------------------------
(* findSingleDifference, lines 541-557, called on two strings *)

MaxStrLen == 3

\* the strings of '1' and '2' of up to MaxStrLen characters
DiffStrings == UNION {[1..n -> {Ch1, Ch2}] : n \in 0..MaxStrLen}

NoDiffOut == [none |-> FALSE, start |-> -2, end |-> -2]

InitDiff ==
    /\ inputs = {}
    /\ args = [items |-> <<>>, recipe |-> "auto", trim |-> FALSE,
               racon_iterations |-> DefaultIterations,
               pilon_iterations |-> DefaultIterations, pilon_jar |-> "pilon.jar"]
    /\ InitCommon
    /\ filt = NoFilter
    /\ anon = NoAnon
    /\ strdiff \in [called : {FALSE}, s1 : DiffStrings, s2 : DiffStrings, out : {NoDiffOut}]
    /\ depth = NoDepth
    /\ study = NoStudy

DiffCall ==
    /\ ~strdiff.called
    /\ strdiff' = [strdiff EXCEPT !.called = TRUE,
                                  !.out = findSingleDifference(strdiff.s1, strdiff.s2)]
    /\ UNCHANGED <<inputs, filt, anon, depth, study, args, details, workfiles, cwd, crash,
                   lastCall, toRegister, pc, runvars>>

NextDiff == DiffCall

SpecDiff == InitDiff /\ [][NextDiff]_vars

----------------------------------------------------------------------------
(* Properties of findSingleDifference *)

\* the (0-based) positions where two strings of one length differ
DiffPositions(s1, s2) == {i \in 0..(Len(s1) - 1) : s1[i + 1] # s2[i + 1]}

\* the positions where a run of differing characters begins
RunStarts(s1, s2) == {i \in DiffPositions(s1, s2) : (i - 1) \notin DiffPositions(s1, s2)}

\* C16: for two strings of one length that differ in exactly one character,
\* at position i (the first and the last position too), the result is the
\* range (i, i+1).
C16_SingleCharacterRange ==
    (/\ strdiff.called
     /\ Len(strdiff.s1) = Len(strdiff.s2)
     /\ Cardinality(DiffPositions(strdiff.s1, strdiff.s2)) = 1)
    => \A i \in DiffPositions(strdiff.s1, strdiff.s2) :
          strdiff.out = DiffResult(FALSE, i, i + 1)

\* C17: for two strings of one length that differ in two or more runs of
\* characters that are not adjacent (the first run may start at index 0),
\* the result is None, never a range.
C17_TwoRunsNoRange ==
    (/\ strdiff.called
     /\ Len(strdiff.s1) = Len(strdiff.s2)
     /\ Cardinality(RunStarts(strdiff.s1, strdiff.s2)) >= 2)
    => strdiff.out.none

\* C18: for two identical strings the result is the None that strings of
\* different length get, so that a caller cannot take it for a difference.
C18_IdenticalIsNone ==
    (strdiff.called /\ strdiff.s1 = strdiff.s2)
    => /\ strdiff.out.none
       /\ strdiff.out = findSingleDifference(strdiff.s1, Append(strdiff.s1, Ch1))

----------------------------------------------------------------------------
(* categorize_anonymous_read_files, lines 559-687, for files that are not
   SRA downloads, each given by its name in the launch directory *)

MaxAnon == 3

AnonNames ==
    {<<114, Ch1>>, <<114, Ch2>>,                         \* "r1", "r2"
     <<Ch1, Ch1>>, <<Ch1, Ch2>>,                         \* "11", "12"
     <<Ch1, 114, Ch1>>, <<Ch2, 114, Ch2>>,               \* "1r1", "2r2"
     <<115, Ch1>>, <<115, Ch2>>,                         \* "s1", "s2"
     <<100, Ch1>>, <<100, Ch2>>,                         \* "d1", "d2"
     <<114, Ch1, 114, Ch1>>, <<114, Ch2, 114, Ch1>>,     \* "r1r1", "r2r1"
     <<114, Ch1, 114, Ch2>>,                             \* "r1r2"
     NameE}                                              \* "e", without records

\* args.anonymous_reads: up to MaxAnon different files
AnonymousReads ==
    {f \in UNION {[1..n -> AnonNames] : n \in 1..MaxAnon} :
        \A i, j \in 1..Len(f) : i # j => f[i] # f[j]}

\* sampleReads: the read ids of the text sample and the average read length
sampleReads(filename) ==
    LET f == FileTable(Path("cwd", filename))
    IN  [read_id_sample |-> IF f.nrec = 0 THEN <<>> ELSE <<f.id>>,
         avg_read_length |-> f.max_len]

\* inferPlatform, for read ids without space, '#' or an SRA accession (the
\* patterns of lines 409, 411, 415 and 423 need one): '>' 62, ':' 58
inferPlatform(read_id, maxReadLength) ==
    IF read_id # <<>> /\ read_id[1] = 62 THEN "fasta"
    ELSE LET parts == Count(58, read_id) + 1
         IN  IF maxReadLength < MAX_SHORT_READ_LENGTH /\ parts = 3 THEN "iontorrent"
             ELSE IF maxReadLength < MAX_SHORT_READ_LENGTH /\ parts > 4 THEN "illumina"
             ELSE IF parts = 3 THEN "iontorrent"
             ELSE "pacbio"

IsDigit(c) == c \in 48..57

\* lines 599-610: the pair two file names make, <<>> if none.  A result of
\* findSingleDifference is a tuple, and true, unless it is None
NamePair(filename1, filename2) ==
    LET singleDiff == findSingleDifference(filename1, filename2)
    IN  IF singleDiff.none \/ ~(singleDiff.start > 0)
           \/ singleDiff.end - singleDiff.start # 1
        THEN <<>>
        ELSE IF IsDigit(filename1[singleDiff.start])        \* charBefore
        THEN <<>>
        ELSE LET c1 == filename1[singleDiff.start + 1]
                 c2 == filename2[singleDiff.start + 1]
             IN  IF c1 = Ch1 /\ c2 = Ch2 THEN <<filename1, filename2>>
                 ELSE IF c2 = Ch1 /\ c1 = Ch2 THEN <<filename2, filename1>>
                 ELSE <<>>

PairSpec(pair) == Pair(Path("cwd", pair[1]), ":", Path("cwd", pair[2]))

\* lines 597-620 from (i, j) on: the candidate pairs, in acc.pairedFiles
RECURSIVE FindPairs(_, _, _, _, _)
FindPairs(singleFiles, read_file_type, i, j, acc) ==
    IF i >= Len(singleFiles) THEN acc
    ELSE LET inner == j <= Len(singleFiles)
             pair == IF inner THEN NamePair(singleFiles[i], singleFiles[j]) ELSE <<>>
             d1 == AddProblem(acc.details, "candidate paired files", PairSpec(pair))
             acc1 == IF pair = <<>> THEN acc
                     ELSE IF read_file_type[singleFiles[i]] # read_file_type[singleFiles[j]]
                     THEN [acc EXCEPT !.details =
                               AddProblem(d1, "Discordant fileTypes", PairSpec(pair))]
                     ELSE [acc EXCEPT !.details = d1, !.pairedFiles = Append(@, pair)]
         IN  FindPairs(singleFiles, read_file_type,
                       IF inner THEN i ELSE i + 1,
                       IF inner THEN j + 1 ELSE i + 2,
                       acc1)

\* lines 659-670: the read ids of the two samples, pair by pair
SampleIdCheck(ids1, ids2) ==
    IF ids1 = <<>> \/ ids2 = <<>> THEN "ok" ELSE PairedIdCheck(ids1[1], ids2[1])

\* lines 625-677 from pair k on
RECURSIVE TestPairs(_, _, _, _)
TestPairs(pairedFiles, read_file_type, k, acc) ==
    IF k > Len(pairedFiles) \/ acc.err # "" THEN acc
    ELSE LET filename1 == pairedFiles[k][1]
             filename2 == pairedFiles[k][2]
             read_types_match == read_file_type[filename1] = read_file_type[filename2]
             d1 == IF read_types_match THEN acc.details
                   ELSE AddProblem(acc.details, "Discordant fileTypes", PairSpec(pairedFiles[k]))
             idCheck == SampleIdCheck(sampleReads(filename1).read_id_sample,
                                      sampleReads(filename2).read_id_sample)
             acc1 == IF idCheck = "TypeError" THEN [acc EXCEPT !.err = "TypeError"]
                     ELSE IF read_types_match /\ idCheck = "ok"
                     THEN [acc EXCEPT !.details = d1,
                                      !.valid_pairs = @ \cup {pairedFiles[k]},
                                      !.membersOfPairs = @ \cup {filename1, filename2}]
                     ELSE [acc EXCEPT !.details =
                               IF idCheck = "ok" THEN d1
                               ELSE AddProblem(d1, "Read IDs do not match",
                                               PairSpec(pairedFiles[k])),
                                      !.valid_singles = @ \cup {filename1, filename2}]
         IN  TestPairs(pairedFiles, read_file_type, k + 1, acc1)

\* lines 578-682: what is to be registered, or the exception raised
categorize_anonymous_read_files(files, d) ==
    LET names == {files[i] : i \in 1..Len(files)}
        read_file_type == [n \in names |->
            LET smp == sampleReads(n)
            IN  IF smp.read_id_sample = <<>> THEN "IndexError"
                ELSE inferPlatform(smp.read_id_sample[1], smp.avg_read_length)]
        Categorized(pairedFiles, tested) ==
            [details |-> tested.details,
             pairedFiles |-> pairedFiles,
             valid_pairs |-> tested.valid_pairs,
             valid_singles |-> tested.valid_singles \cup (names \ tested.membersOfPairs),
             read_file_type |-> read_file_type,
             err |-> tested.err]
        Candidates(found) ==
            Categorized(found.pairedFiles,
                TestPairs(found.pairedFiles, read_file_type, 1,
                    [details |-> found.details, valid_pairs |-> {}, valid_singles |-> {},
                     membersOfPairs |-> {}, err |-> ""]))
    IN  IF \E n \in names : read_file_type[n] = "IndexError"
        THEN [details |-> d, pairedFiles |-> <<>>, valid_pairs |-> {}, valid_singles |-> {},
              read_file_type |-> read_file_type, err |-> "IndexError"]
        ELSE Candidates(FindPairs(files, read_file_type, 1, 2,
                                  [details |-> d, pairedFiles |-> <<>>]))

InitAnon ==
    /\ inputs = {}
    /\ args = [items |-> <<>>, recipe |-> "auto", trim |-> FALSE,
               racon_iterations |-> DefaultIterations,
               pilon_iterations |-> DefaultIterations, pilon_jar |-> "pilon.jar"]
    /\ InitCommon
    /\ filt = NoFilter
    /\ strdiff = NoDiff
    /\ depth = NoDepth
    /\ study = NoStudy
    /\ anon \in [files : AnonymousReads, pairedFiles : {<<>>}, valid_pairs : {{}},
                 valid_singles : {{}}, read_file_type : {EmptyMap}, todo : {{}}]

\* main() line 1892-1893, the function up to line 682
AnonCategorize ==
    /\ pc = "register"
    /\ \E c \in {categorize_anonymous_read_files(anon.files, details)} :
           /\ details' = c.details
           /\ anon' = [anon EXCEPT
                 !.pairedFiles = c.pairedFiles,
                 !.valid_pairs = c.valid_pairs,
                 !.valid_singles = c.valid_singles,
                 !.read_file_type = c.read_file_type,
                 !.todo = {Item(PairSpec(pr), c.read_file_type[pr[1]]) : pr \in c.valid_pairs}
                          \cup {Item(Single(Path("cwd", n)), c.read_file_type[n]) :
                                   n \in c.valid_singles}]
           /\ IF c.err # ""
              THEN pc' = "Crashed"
                   /\ crash' = [err |-> c.err, at |-> "categorize_anonymous_read_files"]
              ELSE pc' = "anon_register" /\ UNCHANGED crash
    /\ UNCHANGED <<inputs, filt, strdiff, depth, study, args, workfiles, cwd, lastCall, toRegister, runvars>>

\* lines 684-685: for item in valid_pairs.union(valid_singles), in any order
AnonRegister ==
    /\ pc = "anon_register"
    /\ \E e \in anon.todo :
          LET r == registerReads(details, workfiles, cwd, e.reads, e.platform, FALSE, None)
          IN  /\ DoRegister(r, "registerReads", "anon_register")
              /\ lastCall' = Call(r, e.reads, e.platform, None)
              /\ anon' = [anon EXCEPT !.todo = @ \ {e}]
    /\ UNCHANGED <<inputs, filt, strdiff, depth, study, args, cwd, toRegister, runvars>>

AnonDone ==
    /\ pc = "anon_register"
    /\ anon.todo = {}
    /\ pc' = "categorized"
    /\ UNCHANGED <<fixed, args, details, workfiles, cwd, crash, lastCall, toRegister, runvars>>

NextAnon == AnonCategorize \/ AnonRegister \/ AnonDone

SpecAnon == InitAnon /\ [][NextAnon]_vars

----------------------------------------------------------------------------
(* Properties of categorize_anonymous_read_files *)

\* two names that differ only in one character, '1' in one and '2' in the
\* other, with no digit right before it
DifferInPairDigit(n1, n2) ==
    /\ Len(n1) = Len(n2)
    /\ \E i \in DiffPositions(n1, n2) :
          /\ DiffPositions(n1, n2) = {i}
          /\ {n1[i + 1], n2[i + 1]} = {Ch1, Ch2}
          /\ (i > 0 => ~IsDigit(n1[i]))

\* two read ids equal except for a '1'/'2' digit at one position
IdsOfMates(id1, id2) ==
    /\ Len(id1) = Len(id2)
    /\ \E i \in DiffPositions(id1, id2) :
          /\ DiffPositions(id1, id2) = {i}
          /\ {id1[i + 1], id2[i + 1]} = {Ch1, Ch2}

AnonFiles == {anon.files[i] : i \in 1..Len(anon.files)}

SampledId(n) == sampleReads(n).read_id_sample[1]

\* the registered paired read sets that hold file n
PairedSetsOf(n) ==
    {k \in DOMAIN details.reads : k.delim \in {":", "%"} /\ n \in {k.f1, k.f2}}

\* C19: once the anonymous files are categorized and registered, two of them
\* whose names differ only in a '1'/'2' character not preceded by a digit,
\* whose inferred platforms agree and whose sampled read ids are equal except
\* for a '1'/'2' digit, are registered as exactly one paired read set that
\* holds both, and neither of them as a single read set.
C19_MatesRegisteredAsPair ==
    pc = "categorized" =>
        \A n1, n2 \in AnonFiles :
            (/\ DifferInPairDigit(n1, n2)
             /\ anon.read_file_type[n1] = anon.read_file_type[n2]
             /\ IdsOfMates(SampledId(n1), SampledId(n2)))
            => /\ PairedSetsOf(n1) = PairedSetsOf(n2)
               /\ Cardinality(PairedSetsOf(n1)) = 1
               /\ SingleId(n1) \notin DOMAIN details.reads
               /\ SingleId(n2) \notin DOMAIN details.reads

\* C20: two file names are proposed as a pair only if they differ in a run of
\* exactly one character, '1' in one name and '2' in the other, with no digit
\* right before it; names that differ in the last of two digits ("11", "12")
\* yield no pair and both files are registered as singles.
C20_ProposedPairs ==
    /\ \A k \in 1..Len(anon.pairedFiles) :
          DifferInPairDigit(anon.pairedFiles[k][1], anon.pairedFiles[k][2])
    /\ (pc = "categorized" /\ AnonFiles = {<<Ch1, Ch1>>, <<Ch1, Ch2>>})
          => /\ anon.pairedFiles = <<>>
             /\ SingleId(<<Ch1, Ch1>>) \in DOMAIN details.reads
             /\ SingleId(<<Ch1, Ch2>>) \in DOMAIN details.reads

----------------------------------------------------------------------------
(* Properties of the study functions, as registerReads applies them *)

\* the read sets whose study ran to its end
StudiedReads == {k \in DOMAIN details.reads : details.reads[k].num_reads > 0}

\* the format of the first file of a registered read set
FormatOf(k) == FileAt(Path("work", k.f1), workfiles).fmt

\* C21: a studied read set is 'short' exactly when its longest read is
\* shorter than MAX_SHORT_READ_LENGTH and 'long' otherwise, except that a read
\* set in FASTA format is 'long' whatever the lengths of its sequences.
C21_LengthClass ==
    \A k \in StudiedReads :
        IF FormatOf(k) = "fasta"
        THEN details.reads[k].length_class = "long"
        ELSE details.reads[k].length_class = "short"
                 <=> details.reads[k].max_read_len < MAX_SHORT_READ_LENGTH

\* C22: a registerReads call on a spec whose files exist returns an id or a
\* rejection (None) and never ends in an unhandled error, whatever the spec:
\* a '%' pair, a pair of files without records, a pair of FASTA files, or a
\* spec whose name is registered already.
C22_RegisterNeverRaises ==
    [][(IsRegisterCall /\ FilesExist(lastCall'.reads, workfiles))
       => pc' # "Crashed"]_vars

----------------------------------------------------------------------------
(* calcReadDepth, lines 1503-1573, on the output of samtools depth: one line
   per base, [contig, depth], the lines of a contig together.  The floats of
   the code are exact rationals here, <<numerator, denominator>>; the sums
   of the code are sums of whole numbers, which floats hold exactly. *)

MaxDepthLines == 4
BaseDepths == {0, 1, 3}

\* the lines of one contig are consecutive
Grouped(lines) ==
    \A i, j \in 1..Len(lines) :
        (i < j /\ lines[i].contig = lines[j].contig)
            => \A k \in i..j : lines[k].contig = lines[i].contig

DepthData ==
    {lines \in UNION {[1..n -> [contig : {1, 2}, depth : BaseDepths]] :
                         n \in 0..MaxDepthLines} : Grouped(lines)}

\* lines 1522-1546: depthSum and length of every contig, the last block of
\* lines of a contig replacing an earlier one
ContigBlockStart(lines, i) ==
    CHOOSE k \in 1..i : /\ \A m \in k..i : lines[m].contig = lines[i].contig
                        /\ (k > 1 => lines[k - 1].contig # lines[i].contig)

RECURSIVE SumDepth(_, _, _)
SumDepth(lines, from, to) ==
    IF from > to THEN 0 ELSE lines[from].depth + SumDepth(lines, from + 1, to)

LastLineOf(lines, c) ==
    CHOOSE i \in 1..Len(lines) :
        lines[i].contig = c /\ \A j \in (i + 1)..Len(lines) : lines[j].contig # c

\* sum of f[c] over the contigs of S
RECURSIVE SumOver(_, _)
SumOver(S, f) ==
    IF S = {} THEN 0
    ELSE LET c == CHOOSE x \in S : TRUE IN f[c] + SumOver(S \ {c}, f)

\* as OneXDepth, but the sum is not divided by the length
OneXDepth_sum(oneXSum, oneXLen) ==
    IF oneXLen > 0 /\ oneXSum > 0 THEN <<oneXSum, 1>> ELSE <<1, 1>>

\* lines 1565-1567: the length-weighted average, 1 by default
OneXDepth(oneXSum, oneXLen) ==
    IF oneXLen > 0 /\ oneXSum > 0 THEN <<oneXSum, oneXLen>> ELSE <<1, 1>>

\* readDepth: contig -> [meanDepth, normalizedDepth]
calcReadDepth(depthData) ==
    LET contigs_ == {depthData[i].contig : i \in 1..Len(depthData)}
        length == [c \in contigs_ |->
                     LastLineOf(depthData, c)
                       - ContigBlockStart(depthData, LastLineOf(depthData, c)) + 1]
        depthSum == [c \in contigs_ |->
                       SumDepth(depthData,
                                ContigBlockStart(depthData, LastLineOf(depthData, c)),
                                LastLineOf(depthData, c))]
        totalLength == Len(depthData)
        totalDepthSum == SumDepth(depthData, 1, Len(depthData))
        \* totalMeanDepth*0.5 <= meanDepth <= totalMeanDepth*1.5
        normal == {c \in contigs_ :
                      /\ 2 * depthSum[c] * totalLength >= totalDepthSum * length[c]
                      /\ 2 * depthSum[c] * totalLength <= 3 * totalDepthSum * length[c]}
        Normalize(oneXDepth) ==
            [c \in contigs_ |->
                [meanDepth |-> <<depthSum[c], length[c]>>,
                 normalizedDepth |-> <<depthSum[c] * oneXDepth[2], length[c] * oneXDepth[1]>>]]
    IN  Normalize(OneXDepth(SumOver(normal, depthSum), SumOver(normal, length)))

InitDepth ==
    /\ inputs = {}
    /\ args = [items |-> <<>>, recipe |-> "auto", trim |-> FALSE,
               racon_iterations |-> DefaultIterations,
               pilon_iterations |-> DefaultIterations, pilon_jar |-> "pilon.jar"]
    /\ InitCommon
    /\ filt = NoFilter
    /\ strdiff = NoDiff
    /\ anon = NoAnon
    /\ study = NoStudy
    /\ depth \in [called : {FALSE}, depthData : DepthData, readDepth : {<<>>}]

DepthCall ==
    /\ ~depth.called
    /\ depth' = [depth EXCEPT !.called = TRUE, !.readDepth = calcReadDepth(depth.depthData)]
    /\ UNCHANGED <<inputs, filt, strdiff, anon, study, args, details, workfiles, cwd, crash,
                   lastCall, toRegister, pc, runvars>>

NextDepth == DepthCall

SpecDepth == InitDepth /\ [][NextDepth]_vars

(* Properties of calcReadDepth *)

\* every line of the depth data has the per-base depth d
UniformDepth(d) == \A i \in 1..Len(depth.depthData) : depth.depthData[i].depth = d

IsOne(q) == q[1] = q[2] /\ q[2] # 0

\* C23: when every contig has the same per-base depth d, for every d >= 0
\* and any contig lengths, the normalized depth of every contig is 1.
C23_UniformDepthIsOne ==
    (depth.called /\ \E d \in BaseDepths : UniformDepth(d))
        => \A c \in DOMAIN depth.readDepth : IsOne(depth.readDepth[c].normalizedDepth)

\* C23, amended: when every contig has the same per-base depth d > 0, for any
\* contig lengths, the normalized depth of every contig is 1 (with d = 0 no
\* contig counts as normal-depth, the divisor stays 1 and the result is 0).
C23_UniformPositiveDepthIsOne ==
    (depth.called /\ \E d \in BaseDepths \ {0} : UniformDepth(d))
        => \A c \in DOMAIN depth.readDepth : IsOne(depth.readDepth[c].normalizedDepth)

C23_Witness ==
    /\ depth.called
    /\ UniformDepth(3)
    /\ \E c1, c2 \in DOMAIN depth.readDepth :
          /\ depth.readDepth[c1].meanDepth[2] = 1
          /\ depth.readDepth[c2].meanDepth[2] = 3
          /\ IsOne(depth.readDepth[c1].normalizedDepth)
          /\ IsOne(depth.readDepth[c2].normalizedDepth)

----------------------------------------------------------------------------
(* The read-through of studySingleReads (lines 296-339) and studyPairedReads
   (lines 217-264) on FASTQ files given record by record: the id line up to
   the first space, the length of the sequence line and of the quality line *)

MaxRecords == 2

\* "@r1", "@r2" (mates), "@q2" and "@r"
ReadIds == {<<64, 114, Ch1>>, <<64, 114, Ch2>>, <<64, 113, Ch2>>, <<64, 114>>}

FastqRecord(id, seqLen, qualLen) == [id |-> id, seqLen |-> seqLen, qualLen |-> qualLen]

FastqFiles ==
    UNION {[1..n -> {FastqRecord(id, sl, ql) :
                        id \in ReadIds, sl \in {100}, ql \in {99, 100}}] :
              n \in 0..MaxRecords}

\* F2.readline() at the end of the file gives "": an empty id, len(line)-1 = -1
PastEnd == FastqRecord(<<>>, -1, -1)

StudyState(err, problem, readNumber, maxReadLength, flag, seqQualLenMatch) ==
    [err |-> err, problem |-> problem, readNumber |-> readNumber,
     maxReadLength |-> maxReadLength, flag |-> flag, seqQualLenMatch |-> seqQualLenMatch]

\* lines 217-248 from record k on; flag is read_ids_paired
RECURSIVE studyPairedReadsLoop(_, _, _, _)
studyPairedReadsLoop(F1, F2, k, st) ==
    IF k > Len(F1) \/ st.err # "" THEN st
    ELSE LET r1 == F1[k]
             r2 == IF k <= Len(F2) THEN F2[k] ELSE PastEnd
             idCheck == IF st.flag THEN PairedIdCheck(r1.id, r2.id) ELSE "ok"
             p1 == IF idCheck = "id_mismatch" THEN Append(st.problem, "id_mismatch")
                   ELSE st.problem
             lenMismatch == st.seqQualLenMatch
                            /\ ~(r1.seqLen = r1.qualLen /\ r2.seqLen = r2.qualLen)
             p2 == IF lenMismatch
                   THEN Append(p1, "sequence and quality strings differ in length")
                   ELSE p1
         IN  studyPairedReadsLoop(F1, F2, k + 1,
                 IF idCheck = "TypeError" THEN [st EXCEPT !.err = "TypeError"]
                 ELSE StudyState("", p2, st.readNumber + 1,
                                 Max({st.maxReadLength, r1.seqLen, r2.seqLen}),
                                 st.flag /\ idCheck = "ok",
                                 st.seqQualLenMatch /\ ~lenMismatch))

\* lines 296-325 from record k on; flag is interleaved.  prev_read_id is
\* assigned once, None (line 295), so the id test of line 303 never runs
RECURSIVE studySingleReadsLoop(_, _, _)
studySingleReadsLoop(F, k, st) ==
    IF k > Len(F) \/ st.err # "" THEN st
    ELSE LET prev_read_id == <<>>
             sample_read_id == F[1].id
             tested == st.flag /\ (k - 1) % 2 = 0 /\ prev_read_id # <<>>
             idCheck == IF tested THEN PairedIdCheck(prev_read_id, sample_read_id) ELSE "ok"
             lenMismatch == st.seqQualLenMatch /\ F[k].seqLen # F[k].qualLen
         IN  studySingleReadsLoop(F, k + 1,
                 IF idCheck = "TypeError" THEN [st EXCEPT !.err = "TypeError"]
                 ELSE StudyState("",
                                 IF lenMismatch
                                 THEN Append(st.problem,
                                             "sequence and quality strings differ in length")
                                 ELSE st.problem,
                                 st.readNumber + 1,
                                 Max({st.maxReadLength, F[k].seqLen}),
                                 st.flag /\ idCheck = "ok",
                                 st.seqQualLenMatch /\ ~lenMismatch))

StudyState0 == StudyState("", <<>>, 0, 0, TRUE, TRUE)

\* what the study leaves in details['reads'][item], or the exception
StudyOut(err, problem, num_reads, max_read_len, length_class, interleaved) ==
    [err |-> err, problem |-> problem, num_reads |-> num_reads,
     max_read_len |-> max_read_len, length_class |-> length_class,
     interleaved |-> interleaved]

\* studyPairedReads on two FASTQ files, lines 206-264
studyPairedFastq(F1, F2) ==
    LET Ended(st) ==
            IF st.err # "" THEN StudyOut(st.err, st.problem, 0, 0, "na", FALSE)
            ELSE IF st.readNumber = 0
            THEN StudyOut("ZeroDivisionError", st.problem, 0, 0, "na", FALSE)
            ELSE StudyOut("",
                     IF st.maxReadLength >= MAX_SHORT_READ_LENGTH
                     THEN Append(st.problem, "paired reads appear to be long")
                     ELSE st.problem,
                     st.readNumber, st.maxReadLength, LengthClass(st.maxReadLength), FALSE)
    IN  Ended(studyPairedReadsLoop(F1, F2, 1, StudyState0))

\* studySingleReads on a FASTQ file, lines 286-339; interleaved is the value
\* registerReads put in the entry
studySingleFastq(F, interleaved) ==
    LET Ended(st) ==
            IF st.err # "" THEN StudyOut(st.err, st.problem, 0, 0, "na", interleaved)
            ELSE IF st.readNumber = 0
            THEN StudyOut("", st.problem, 0, 0, "na", interleaved)
            ELSE StudyOut("", st.problem, st.readNumber, st.maxReadLength,
                          LengthClass(st.maxReadLength), interleaved \/ st.flag)
    IN  Ended(studySingleReadsLoop(F, 1, StudyState0))

NoStudyOut == StudyOut("", <<>>, 0, 0, "na", FALSE)

InitStudy ==
    /\ inputs = {}
    /\ args = [items |-> <<>>, recipe |-> "auto", trim |-> FALSE,
               racon_iterations |-> DefaultIterations,
               pilon_iterations |-> DefaultIterations, pilon_jar |-> "pilon.jar"]
    /\ InitCommon
    /\ filt = NoFilter
    /\ strdiff = NoDiff
    /\ anon = NoAnon
    /\ depth = NoDepth
    /\ \/ study \in [called : {FALSE}, layout : {"single-end"}, F1 : FastqFiles,
                     F2 : {<<>>}, interleaved : BOOLEAN, out : {NoStudyOut}]
       \/ study \in [called : {FALSE}, layout : {"paired-end"}, F1 : FastqFiles,
                     F2 : FastqFiles, interleaved : {FALSE}, out : {NoStudyOut}]

StudySingle ==
    /\ ~study.called
    /\ study.layout = "single-end"
    /\ study' = [study EXCEPT !.called = TRUE,
                              !.out = studySingleFastq(study.F1, study.interleaved)]
    /\ UNCHANGED <<inputs, filt, strdiff, anon, depth, args, details, workfiles, cwd, crash,
                   lastCall, toRegister, pc, runvars>>

StudyPaired ==
    /\ ~study.called
    /\ study.layout = "paired-end"
    /\ study' = [study EXCEPT !.called = TRUE,
                              !.out = studyPairedFastq(study.F1, study.F2)]
    /\ UNCHANGED <<inputs, filt, strdiff, anon, depth, args, details, workfiles, cwd, crash,
                   lastCall, toRegister, pc, runvars>>

NextStudy == StudySingle \/ StudyPaired

SpecStudy == InitStudy /\ [][NextStudy]_vars

(* Properties of the read-through *)

ProblemCount(kind) == Count(kind, study.out.problem)

\* C24: studySingleReads marks a single file interleaved only if its record
\* ids confirm it (some record's id pairs with the id of the record before
\* it by the '1'/'2' digit) or the caller passed interleaved: a FASTQ file
\* whose consecutive ids are unrelated is not marked.
C24_InterleavedOnlyIfConfirmed ==
    (study.called /\ study.layout = "single-end" /\ study.out.interleaved)
        => \/ study.interleaved
           \/ \E k \in 1..(Len(study.F1) - 1) :
                 IdsOfMates(study.F1[k].id, study.F1[k + 1].id)

\* the id of the k-th record of the second file, "" past its end
SecondId(k) == IF k <= Len(study.F2) THEN study.F2[k].id ELSE <<>>

\* C25: studyPairedReads records an id-mismatch problem if and only if some
\* record's two ids neither are equal nor differ only in one '1'/'2' digit
\* at the same position; and num_reads counts every record, also after a
\* mismatch.
C25_IdMismatchRule ==
    (study.called /\ study.layout = "paired-end" /\ Len(study.F1) > 0)
        => /\ ProblemCount("id_mismatch") > 0
              <=> \E k \in 1..Len(study.F1) :
                     /\ study.F1[k].id # SecondId(k)
                     /\ ~IdsOfMates(study.F1[k].id, SecondId(k))
           /\ study.out.num_reads = Len(study.F1)

\* the records of the read set with a sequence and a quality string of
\* different lengths, in either file
Offending ==
    {k \in 1..Len(study.F1) :
        \/ study.F1[k].seqLen # study.F1[k].qualLen
        \/ /\ study.layout = "paired-end" /\ k <= Len(study.F2)
           /\ study.F2[k].seqLen # study.F2[k].qualLen}

\* C26: a study ends with one sequence/quality length problem for every
\* record whose sequence and quality string differ in length: k problems
\* for k such records.
C26_OneProblemPerRecord ==
    (study.called /\ study.out.err = "")
        => ProblemCount("sequence and quality strings differ in length")
               = Cardinality(Offending)

----------------------------------------------------------------------------
(* The platform index *)

\* C27: after any registerReads calls, with and without supercedes, every
\* id of a per-platform list is a key of the reads map, occurs once in all
\* the lists together, and is listed under the platform its entry records.
C27_PlatformIndexConsistent ==
    \A p \in DOMAIN details.platform :
        \A i \in 1..Len(details.platform[p]) :
            LET id == details.platform[p][i]
            IN  /\ id \in DOMAIN details.reads
                /\ Occurrences(id, details) = 1
                /\ details.reads[id].platform = p

----------------------------------------------------------------------------
(* The partition categorize_anonymous_read_files makes *)

\* the valid pairs that hold file n
ValidPairsOf(n) == {pr \in anon.valid_pairs : n \in {pr[1], pr[2]}}

\* the registered read sets that hold file n
ReadSetsOf(n) == {k \in DOMAIN details.reads : n \in {k.f1, k.f2}}

\* C28: after categorize_anonymous_read_files every anonymous file belongs
\* to exactly one read set: it is a valid single or a member of exactly one
\* valid pair, never both and never a member of two pairs; and once all are
\* registered, exactly one registered read set holds it.
C28_EveryFileInOneReadSet ==
    /\ pc \in {"anon_register", "categorized"} =>
          \A n \in AnonFiles :
              Cardinality(ValidPairsOf(n)) + (IF n \in anon.valid_singles THEN 1 ELSE 0) = 1
    /\ pc = "categorized" =>
          \A n \in AnonFiles : Cardinality(ReadSetsOf(n)) = 1

----------------------------------------------------------------------------
(* The reads of the unicycler run *)

\* C29: every read set that is not superseded is given to the unicycler
\* run; of two or more live read sets of one class none is left out.
C29_UnicyclerGetsAllLiveReads ==
    \A i \in CallsOf({"unicycler"}) :
        \A item \in DOMAIN details.reads :
            Live(details, item) => item \in calls[i].reads

----------------------------------------------------------------------------
(* The circular flag of the contig filter *)

\* the records the filter wrote, kept or archived
WrittenRecords ==
    {filt.out.outputContigs[i] : i \in 1..Len(filt.out.outputContigs)}
    \cup {filt.out.suboptimalContigs[i] : i \in 1..Len(filt.out.suboptimalContigs)}

\* C30: the k-th contig of the contig file is labelled circular, and listed
\* in circular_contigs, if and only if the assembler annotated its k-th
\* contig as circular (k is in contigCircular); no other contig gets the flag.
C30_CircularFlagOnSameContig ==
    filt.called =>
       /\ \A rec \in WrittenRecords :
             rec.circular <=> rec.seqId \in filt.arg.contigCircular
       /\ {filt.out.circular_contigs[i] : i \in 1..Len(filt.out.circular_contigs)}
             = {rec.contigId : rec \in {r \in WrittenRecords :
                                           r.seqId \in filt.arg.contigCircular}}

====
